---- MODULE Spec2Model ----
(***************************************************************************)
(* A model of the employee roster of src/src/EmployeeDashboard.tsx: the    *)
(* persisted employee blob, the load at mount and at reload, the form, the *)
(* create / update / delete handlers with their capability and validation  *)
(* guards, the query view, the CSV export and the "New (30d)" count.       *)
(***************************************************************************)
EXTENDS Integers, Sequences, FiniteSets, TLC

VARIABLES
    lsEmployees,  \* localStorage item under LS_KEYS.employees
    phase,        \* "unmounted", "mounted", or "crashed" (the initializer threw)
    employees,    \* the employees state: a sequence of JS objects
    form,         \* the form state: a JS object
    editingId,    \* the editingId state: null or a string
    userRole,     \* the userRole state
    uidCalls,     \* how many times uid() has been called
    writes,       \* how many times a handler has called setEmployees or the page
                  \* has been reloaded
    lastCall,     \* the mount, remove, upsert or export that just ran: its
                  \* arguments, the state it found and how it ended
    q,            \* the search text
    fDept,        \* the four filters: "All" or a value
    fRole,
    fStatus,
    fContract,
    sortKey,      \* "name", "hireDate" or "employeeId"
    sortDir,      \* "asc" or "desc"
    now,          \* the clock, in hours since 1970-01-01T00:00Z
    download      \* the file the last export handed to the browser

\* the state of the query controls, the clock and the last download
viewVars == <<q, fDept, fRole, fStatus, fContract, sortKey, sortDir, now, download>>

vars ==
    <<lsEmployees, phase, employees, form, editingId, userRole, uidCalls, writes,
      lastCall, q, fDept, fRole, fStatus, fContract, sortKey, sortDir, now, download>>

(***************************************************************************)
(* Bounds of the model.                                                    *)
(***************************************************************************)
MaxStored == 2      \* longest array found in storage when the page opens
MaxWrites == 2      \* calls of setEmployees, and reloads, in a run

(***************************************************************************)
(* JavaScript values.  Every value carries its kind in t.                  *)
(***************************************************************************)
Str(s) == [t |-> "string", s |-> s]
Num(n) == [t |-> "number", n |-> n]
Null == [t |-> "null"]
Undefined == [t |-> "undefined"]
Obj(f) == [t |-> "object", o |-> f]
Arr(a) == [t |-> "array", a |-> a]

\* typeof v
TypeOf(v) == IF v.t \in {"null", "array", "object"} THEN "object" ELSE v.t

\* the truthiness of v, as in !v and if (v)
Truthy(v) ==
    CASE v.t = "string" -> v.s # ""
      [] v.t = "number" -> v.n # 0
      [] v.t \in {"null", "undefined"} -> FALSE
      [] OTHER -> TRUE

\* reading property k of v throws a TypeError on null and undefined
GetThrows(v) == v.t \in {"null", "undefined"}

\* v[k] for a v on which the read does not throw
Get(v, k) ==
    CASE v.t = "object" -> IF k \in DOMAIN v.o THEN v.o[k] ELSE Undefined
      [] v.t = "array" -> IF k = "length" THEN Num(Len(v.a)) ELSE Undefined
      [] v.t = "string" -> IF k = "length" THEN Num(Len(v.s)) ELSE Undefined
      [] OTHER -> Undefined

\* { ...a, ...b } for objects a and b: b's keys win
Spread(a, b) ==
    Obj([k \in (DOMAIN a.o) \cup (DOMAIN b.o) |->
            IF k \in DOMAIN b.o THEN b.o[k] ELSE a.o[k]])

\* { ...a, k: v }
With(a, k, v) ==
    Obj([j \in (DOMAIN a.o) \cup {k} |-> IF j = k THEN v ELSE a.o[j]])

(***************************************************************************)
(* Strings.  A string is a TLA+ string over the printable ASCII characters *)
(* and the line feed; Head, Tail, Len, SubSeq and \o act on it as on a     *)
(* sequence of one-character strings.                                      *)
(***************************************************************************)
\* the printable ASCII characters in code-unit order, from U+0020 (the grave
\* accent, which no string of the model has, is left out)
CodeUnits ==
    " !\"#$%&'()*+,-./0123456789:;<=>?@ABCDEFGHIJKLMNOPQRSTUVWXYZ[\\]^_"
    \o "abcdefghijklmnopqrstuvwxyz{|}~"

\* the position of the one-character string c in the string s, 0 if absent
IndexIn(s, c) ==
    IF \E i \in 1..Len(s) : SubSeq(s, i, i) = c
    THEN CHOOSE i \in 1..Len(s) : SubSeq(s, i, i) = c
    ELSE 0

\* the code unit of c, with the line feed (U+000A) before every other character
CodeUnit(c) == IndexIn(CodeUnits, c)

RECURSIVE StringGreater(_, _)
\* a > b on two strings: the first differing code unit decides, a proper
\* prefix is the smaller
StringGreater(a, b) ==
    IF a = "" THEN FALSE
    ELSE IF b = "" THEN TRUE
    ELSE IF Head(a) = Head(b) THEN StringGreater(Tail(a), Tail(b))
    ELSE CodeUnit(Head(a)) > CodeUnit(Head(b))

UpperCase == "ABCDEFGHIJKLMNOPQRSTUVWXYZ"
LowerCase == "abcdefghijklmnopqrstuvwxyz"

LowerChar(c) ==
    IF IndexIn(UpperCase, c) = 0 THEN c
    ELSE SubSeq(LowerCase, IndexIn(UpperCase, c), IndexIn(UpperCase, c))

RECURSIVE toLowerCase(_)
toLowerCase(s) == IF s = "" THEN "" ELSE LowerChar(Head(s)) \o toLowerCase(Tail(s))

\* s.includes(part)
includes(s, part) ==
    \E i \in 1..(Len(s) - Len(part) + 1) : SubSeq(s, i, i + Len(part) - 1) = part

WhiteSpace == {" ", "\n"}

RECURSIVE trimStart(_)
trimStart(s) == IF s # "" /\ Head(s) \in WhiteSpace THEN trimStart(Tail(s)) ELSE s

RECURSIVE trimEnd(_)
trimEnd(s) ==
    IF s # "" /\ SubSeq(s, Len(s), Len(s)) \in WhiteSpace
    THEN trimEnd(SubSeq(s, 1, Len(s) - 1))
    ELSE s

trim(s) == trimEnd(trimStart(s))

\* The root collation that localeCompare uses (no locale is passed): white
\* space, punctuation, symbols, digits, then the letters with a before A
\* before b.  A character's primary weight does not look at its case.
CollationOrder ==
    "\n _-,;:!?.'\"()[]{}@*/\\&#%^+<=>|~$0123456789abcdefghijklmnopqrstuvwxyz"

Primary(c) == IndexIn(CollationOrder, LowerChar(c))

\* 0 for a character without case or in lower case, 1 for an upper-case letter
Tertiary(c) == IF IndexIn(UpperCase, c) = 0 THEN 0 ELSE 1

\* the weight of character c at a level of the collation
Weight(c, level) == IF level = "primary" THEN Primary(c) ELSE Tertiary(c)

RECURSIVE CompareWeights(_, _, _)
\* the sign of the comparison of a and b by their characters' weights at a level
CompareWeights(a, b, level) ==
    IF a = "" /\ b = "" THEN 0
    ELSE IF a = "" THEN -1
    ELSE IF b = "" THEN 1
    ELSE IF Weight(Head(a), level) = Weight(Head(b), level)
         THEN CompareWeights(Tail(a), Tail(b), level)
    ELSE IF Weight(Head(a), level) < Weight(Head(b), level) THEN -1 ELSE 1

\* a.localeCompare(b): the primary weights decide, then the case
localeCompare(a, b) ==
    IF CompareWeights(a, b, "primary") # 0
    THEN CompareWeights(a, b, "primary")
    ELSE CompareWeights(a, b, "tertiary")

(***************************************************************************)
(* Dates.  Every instant of the model is a whole hour, so getTime() is     *)
(* counted in hours since 1970-01-01T00:00Z and a day is 24 of them, where *)
(* the code counts milliseconds and 1000 * 60 * 60 * 24.                   *)
(***************************************************************************)
HoursPerDay == 24

\* the number NaN
NaN == [t |-> "number", nan |-> TRUE]

IsNaN(v) == "nan" \in DOMAIN v

Digits == "0123456789"

IsDigits(s) == \A i \in 1..Len(s) : IndexIn(Digits, SubSeq(s, i, i)) # 0

RECURSIVE ToInt(_)
\* the number a string of digits writes
ToInt(s) ==
    IF s = "" THEN 0
    ELSE 10 * ToInt(SubSeq(s, 1, Len(s) - 1)) + IndexIn(Digits, SubSeq(s, Len(s), Len(s))) - 1

\* days from 1970-01-01 to the day d of month m of year y
DaysFromCivil(y, m, d) ==
    LET yy == IF m <= 2 THEN y - 1 ELSE y
        era == yy \div 400
        yoe == yy - era * 400
        doy == (153 * (IF m > 2 THEN m - 3 ELSE m + 9) + 2) \div 5 + d - 1
        doe == yoe * 365 + yoe \div 4 - yoe \div 100 + doy
    IN  era * 146097 + doe - 719468

\* YYYY-MM-DD, a calendar day
IsDateText(s) ==
    /\ Len(s) = 10
    /\ IsDigits(SubSeq(s, 1, 4)) /\ SubSeq(s, 5, 5) = "-"
    /\ IsDigits(SubSeq(s, 6, 7)) /\ SubSeq(s, 8, 8) = "-"
    /\ IsDigits(SubSeq(s, 9, 10))
    /\ ToInt(SubSeq(s, 6, 7)) \in 1..12
    /\ ToInt(SubSeq(s, 9, 10)) \in 1..31

\* THH:00:00.000Z, a whole hour, after a date
IsHourText(s) ==
    /\ Len(s) = 14
    /\ SubSeq(s, 1, 1) = "T" /\ IsDigits(SubSeq(s, 2, 3))
    /\ SubSeq(s, 4, 14) = ":00:00.000Z"
    /\ ToInt(SubSeq(s, 2, 3)) \in 0..23

\* new Date(iso).getTime(): a date alone is midnight UTC; a text that is
\* neither form is taken to give an invalid date
getTime(iso) ==
    LET day == DaysFromCivil(ToInt(SubSeq(iso, 1, 4)), ToInt(SubSeq(iso, 6, 7)),
                             ToInt(SubSeq(iso, 9, 10)))
    IN  IF IsDateText(iso) THEN Num(day * HoursPerDay)
        ELSE IF Len(iso) = 24 /\ IsDateText(SubSeq(iso, 1, 10))
                /\ IsHourText(SubSeq(iso, 11, 24))
        THEN Num(day * HoursPerDay + ToInt(SubSeq(iso, 12, 13)))
        ELSE NaN

\* n written with at least w digits
RECURSIVE Pad(_, _)
Pad(n, w) ==
    IF n < 10 /\ w <= 1 THEN SubSeq(Digits, n + 1, n + 1)
    ELSE Pad(n \div 10, w - 1) \o SubSeq(Digits, (n % 10) + 1, (n % 10) + 1)

\* new Date(h hours).toISOString()
toISOString(h) ==
    LET z == h \div HoursPerDay + 719468
        era == z \div 146097
        doe == z - era * 146097
        yoe == (doe - doe \div 1460 + doe \div 36524 - doe \div 146096) \div 365
        doy == doe - (365 * yoe + yoe \div 4 - yoe \div 100)
        mp == (5 * doy + 2) \div 153
        d == doy - (153 * mp + 2) \div 5 + 1
        m == IF mp < 10 THEN mp + 3 ELSE mp - 9
        y == yoe + era * 400 + (IF m <= 2 THEN 1 ELSE 0)
    IN  Pad(y, 4) \o "-" \o Pad(m, 2) \o "-" \o Pad(d, 2) \o "T"
        \o Pad(h % HoursPerDay, 2) \o ":00:00.000Z"

\* Math.round(h / HoursPerDay) for an integer h: halves go up
RoundedDays(h) == (2 * h + HoursPerDay) \div (2 * HoursPerDay)

\* daysBetween(aIso, bIso)
daysBetween(aIso, bIso) ==
    LET a == getTime(aIso)
        b == getTime(bIso)
    IN  IF IsNaN(a) \/ IsNaN(b) THEN NaN ELSE Num(RoundedDays(b.n - a.n))

\* the clock when the page is opened: 2026-11-02T09:00Z
PageOpened == getTime("2026-11-02T09:00:00.000Z").n

(***************************************************************************)
(* isEmployee: the type guard applied to every stored entry at load.       *)
(***************************************************************************)
StringKeys ==
    {"id", "name", "employeeId", "department", "role", "status",
     "contractType", "hireDate"}

isEmployee(obj) ==
    /\ Truthy(obj)
    /\ TypeOf(obj) = "object"
    /\ \A k \in StringKeys : TypeOf(Get(obj, k)) = "string"
    /\ TypeOf(Get(obj, "contact")) = "object"

(***************************************************************************)
(* JSON text.  A storage item is absent, or a text that is either the      *)
(* serialisation of a JSON value or something JSON.parse rejects.          *)
(***************************************************************************)
NoItem == [kind |-> "absent"]
EmptyText == [kind |-> "text", parses |-> FALSE, raw |-> ""]
Garbage == [kind |-> "text", parses |-> FALSE, raw |-> "{oops"]

RECURSIVE Serialisable(_)
\* JSON.stringify: an undefined property is left out, an undefined array
\* element becomes null.
Serialisable(v) ==
    CASE v.t = "object" ->
            LET keep == {k \in DOMAIN v.o : v.o[k].t # "undefined"}
            IN Obj([k \in keep |-> Serialisable(v.o[k])])
      [] v.t = "array" ->
            Arr([i \in 1..Len(v.a) |->
                    IF v.a[i].t = "undefined" THEN Null ELSE Serialisable(v.a[i])])
      [] OTHER -> v

JSONstringify(v) == [kind |-> "text", parses |-> TRUE, json |-> Serialisable(v)]

\* saveJSON(key, value): the item after localStorage.setItem
saveJSON(value) == JSONstringify(value)

\* loadJSON(key, fallback) on the item
loadJSON(item, fallback) ==
    IF item.kind = "absent" THEN fallback
    ELSE IF ~item.parses THEN fallback  \* "" is falsy; JSON.parse throws, caught
    ELSE item.json

(***************************************************************************)
(* uid(): a random string followed by the clock, both in base 36.  The     *)
(* n-th call is taken to return a string that no earlier call returned and *)
(* that is not in storage (Math.random() draws 52 bits, the clock          *)
(* advances); uid() itself never looks at the collection.                  *)
(***************************************************************************)
UidText ==
    <<"k3f9x2mhj0a1", "9qz41cmhj0a1", "t07bbamhj0a1", "e5d2w8mhj4p7",
      "zz13r0mhj9c2", "b8n6y4mhk1d3", "h2v0q9mhk5e8", "m4c7t1mhk9f0",
      "c1x5u3mhl2g4", "w9a8s6mhl6h1">>

uid(n) == UidText[n + 1]

(***************************************************************************)
(* SEED and emptyForm.                                                     *)
(***************************************************************************)
Contact(phone, email, emergencyName, emergencyPhone) ==
    Obj([phone |-> Str(phone), email |-> Str(email),
         emergencyName |-> Str(emergencyName),
         emergencyPhone |-> Str(emergencyPhone)])

\* SEED as built when the module is evaluated after n earlier uid() calls
SEED(n) ==
    << Obj([id |-> Str(uid(n)), name |-> Str("Odesomi Kamorudeen"),
            employeeId |-> Str("EMP-001"), department |-> Str("Engineering"),
            role |-> Str("Engineer"), supervisor |-> Str("Sam Carter"),
            status |-> Str("Active"), contractType |-> Str("Permanent"),
            hireDate |-> Str("2026-10-13T09:00:00.000Z"),
            contact |-> Contact("+2347069411772", "kodesomi93@gmail.com",
                                "kodesomi", "+2348022347871"),
            photoUrl |-> Str("https://i.pravatar.cc/100?img=1")]),
       Obj([id |-> Str(uid(n + 1)), name |-> Str("Bolagbade Latunde"),
            employeeId |-> Str("EMP-002"), department |-> Str("HR"),
            role |-> Str("HR Manager"), supervisor |-> Str("-"),
            status |-> Str("Active"), contractType |-> Str("Permanent"),
            hireDate |-> Str("2026-07-05T09:00:00.000Z"),
            contact |-> Contact("+234706884221", "latunde_2@gmail.com",
                                "Lilly Chen", "+23493445678"),
            photoUrl |-> Str("https://i.pravatar.cc/100?img=5")]),
       Obj([id |-> Str(uid(n + 2)), name |-> Str("Zara Bello"),
            employeeId |-> Str("EMP-003"), department |-> Str("Marketing"),
            role |-> Str("Marketer"), supervisor |-> Str("Michael Chen"),
            status |-> Str("Probation"), contractType |-> Str("Contract"),
            hireDate |-> Str("2026-09-03T09:00:00.000Z"),
            contact |-> Contact("+234-701-0000", "zarab@gmail.com",
                                "Faruq Bello", "+23420234461"),
            photoUrl |-> Str("https://i.pravatar.cc/100?img=8")]) >>

emptyForm ==
    Obj([name |-> Str(""), employeeId |-> Str(""),
         department |-> Str("Engineering"), role |-> Str("Engineer"),
         supervisor |-> Str(""), status |-> Str("Active"),
         contractType |-> Str("Permanent"), hireDate |-> Str("2026-11-02"),
         contact |-> Contact("", "", "", ""), photoUrl |-> Str("")])

EmptyObject == Obj([k \in {} |-> Null])

(***************************************************************************)
(* What storage may hold when the page opens.  Ann, AnnTwin and Blank pass *)
(* isEmployee (AnnTwin repeats Ann's id, Blank has the empty id, Ann has   *)
(* no optional key); the others are malformed entries.  No entry of the    *)
(* model has a null contact, so form.contact.email never throws.           *)
(***************************************************************************)
Ann ==
    Obj([id |-> Str("a1"), name |-> Str("Ann Eze"), employeeId |-> Str("EMP-100"),
         department |-> Str("Sales"), role |-> Str("Sales Rep"),
         status |-> Str("Active"), contractType |-> Str("Permanent"),
         hireDate |-> Str("2025-01-15T09:00:00.000Z"),
         contact |-> Contact("+2341", "ann@uptick.io", "Eze", "+2342")])

AnnTwin ==
    Obj([id |-> Str("a1"), name |-> Str("Ann Twin"), employeeId |-> Str("EMP-101"),
         department |-> Str("Finance"), role |-> Str("Accountant"),
         status |-> Str("On Leave"), contractType |-> Str("Contract"),
         hireDate |-> Str("2025-02-20T09:00:00.000Z"),
         contact |-> Contact("+2343", "twin@uptick.io", "Twin", "+2344"),
         photoUrl |-> Str("https://i.pravatar.cc/100?img=3")])

Blank ==
    Obj([id |-> Str(""), name |-> Str("Bob Ojo"), employeeId |-> Str("EMP-102"),
         department |-> Str("Operations"), role |-> Str("Operations Analyst"),
         supervisor |-> Str("Ann Eze"),
         status |-> Str("Inactive"), contractType |-> Str("Intern"),
         hireDate |-> Str("2026-12-01T09:00:00.000Z"),
         contact |-> Contact("+2345", "bob@uptick.io", "Ojo", "+2346")])

NoContact ==
    Obj([id |-> Str("n1"), name |-> Str("No Contact"), employeeId |-> Str("EMP-103"),
         department |-> Str("HR"), role |-> Str("Recruiter"),
         status |-> Str("Active"), contractType |-> Str("Permanent"),
         hireDate |-> Str("2025-03-01T09:00:00.000Z")])

NumberName ==
    Obj([id |-> Str("n2"), name |-> Num(42), employeeId |-> Str("EMP-104"),
         department |-> Str("HR"), role |-> Str("Recruiter"),
         status |-> Str("Active"), contractType |-> Str("Permanent"),
         hireDate |-> Str("2025-03-01T09:00:00.000Z"),
         contact |-> Contact("+2347", "num@uptick.io", "Num", "+2348")])

\* a second record with Ann's name, employee ID and hire date
Namesake ==
    Obj([id |-> Str("a2"), name |-> Str("Ann Eze"), employeeId |-> Str("EMP-100"),
         department |-> Str("Sales"), role |-> Str("Sales Rep"),
         supervisor |-> Str("She said \"hi\""),
         status |-> Str("Active"), contractType |-> Str("Permanent"),
         hireDate |-> Str("2025-01-15T09:00:00.000Z"),
         contact |-> Contact("+2349", "ann.eze@uptick.io", "Eze, Ike", "+2340")])

\* hired 30 days before the page is opened
Recent ==
    Obj([id |-> Str("r1"), name |-> Str("Rita Musa"), employeeId |-> Str("EMP-105"),
         department |-> Str("Marketing"), role |-> Str("Marketer"),
         status |-> Str("Probation"), contractType |-> Str("Contract"),
         hireDate |-> Str("2026-10-03T09:00:00.000Z"),
         contact |-> Contact("+2351", "rita@uptick.io", "Musa", "+2352")])

\* starts the day after the page is opened (the form's date input gives a
\* date without a time)
Starter ==
    Obj([id |-> Str("s1"), name |-> Str("Sam Udo"), employeeId |-> Str("EMP-106"),
         department |-> Str("Engineering"), role |-> Str("Engineer"),
         supervisor |-> Str(""),
         status |-> Str("Active"), contractType |-> Str("Intern"),
         hireDate |-> Str("2026-11-03"),
         contact |-> Contact("", "sam@uptick.io", "", ""), photoUrl |-> Str("")])

\* a hire date that is a string and no date
Undated ==
    Obj([id |-> Str("u1"), name |-> Str("Uche Ade"), employeeId |-> Str("EMP-107"),
         department |-> Str("Finance"), role |-> Str("Accountant"),
         status |-> Str("Active"), contractType |-> Str("Permanent"),
         hireDate |-> Str("soon"),
         contact |-> Contact("+2353", "uche@uptick.io", "Ade", "+2354")])

StoredEntries == {Ann, AnnTwin, Blank, NoContact, NumberName, Null, Num(7)}

SeqsUpTo(S, n) == UNION {[1..m -> S] : m \in 0..n}

StoredArrays == {Arr(a) : a \in SeqsUpTo(StoredEntries, MaxStored)}

StoredValues ==
    StoredArrays \cup {Null, Num(5), Str("employees"), Obj([version |-> Num(1)])}

StoredItems == {NoItem, EmptyText, Garbage} \cup {JSONstringify(v) : v \in StoredValues}

(***************************************************************************)
(* The employees initializer (useState) and the persistence effect.        *)
(***************************************************************************)
\* an effect that writes the collection without its newest record
persistRest(emps) == saveJSON(Arr(IF Len(emps) > 1 THEN Tail(emps) ELSE emps))

\* the effect of line 259: the whole collection is written
persist(emps) == saveJSON(Arr(emps))

\* The initializer on storage item `item`, SEED being SEED(n).  threw: a
\* TypeError left the initializer; value: the initial employees; ls: the item
\* when the initializer returns.
initializer(item, n) ==
    LET cached == loadJSON(item, Arr(<< >>))
        thrown == [threw |-> TRUE, seeded |-> FALSE, value |-> << >>, ls |-> item]
    IN  IF GetThrows(cached) THEN thrown                         \* null.length
        ELSE IF Truthy(Get(cached, "length"))
             THEN IF cached.t = "array"
                  THEN [threw |-> FALSE, seeded |-> FALSE,
                        value |-> SelectSeq(cached.a, isEmployee), ls |-> item]
                  ELSE thrown                    \* cached.filter is not a function
             ELSE [threw |-> FALSE, seeded |-> TRUE, value |-> SEED(n),
                   ls |-> saveJSON(Arr(SEED(n)))]

\* the capability check left out
canEditAlways == TRUE

canEdit == userRole = "admin"

\* download while nothing has been exported
NoDownload == [name |-> "", text |-> ""]

\* lastCall while no mount, remove or upsert has just run
Idle ==
    [op |-> "none", outcome |-> "none", id |-> Null, role |-> "", before |-> << >>,
     stored |-> NoItem, draft |-> EmptyObject]

\* lastCall of a handler `op` called with `id` that ended with `outcome`
Call(op, outcome, id) ==
    [op |-> op, outcome |-> outcome, id |-> id, role |-> userRole,
     before |-> employees, stored |-> lsEmployees, draft |-> form]

InitWith(items) ==
    /\ lsEmployees \in items
    /\ phase = "unmounted"
    /\ employees = << >>
    /\ form = emptyForm
    /\ editingId = Null
    /\ userRole \in {"admin", "viewer"}
    /\ uidCalls = 0
    /\ writes = 0
    /\ lastCall = Idle
    /\ q = ""
    /\ fDept = "All"
    /\ fRole = "All"
    /\ fStatus = "All"
    /\ fContract = "All"
    /\ sortKey = "name"
    /\ sortDir = "asc"
    /\ now = PageOpened
    /\ download = NoDownload

\* The page opens: SEED is built, the initializer runs, the effect persists.
Mount ==
    /\ phase = "unmounted"
    /\ LET r == initializer(lsEmployees, uidCalls)
       IN  /\ phase' = IF r.threw THEN "crashed" ELSE "mounted"
           /\ employees' = r.value
           /\ lsEmployees' = IF r.threw THEN r.ls ELSE persist(r.value)
           /\ lastCall' = Call("mount",
                               IF r.threw THEN "threw"
                               ELSE IF r.seeded THEN "seeded" ELSE "loaded",
                               Null)
    /\ uidCalls' = uidCalls + 3
    /\ UNCHANGED <<form, editingId, userRole, writes>>
    /\ UNCHANGED viewVars

\* The page is reloaded: the component's state is gone, the module is
\* evaluated again (SEED is rebuilt), the initializer runs on what storage
\* holds and the effect persists.  The role is read back from storage, where
\* its own effect keeps it.
Reload ==
    /\ phase = "mounted"
    /\ writes < MaxWrites
    /\ writes' = writes + 1
    /\ LET r == initializer(lsEmployees, uidCalls)
       IN  /\ phase' = IF r.threw THEN "crashed" ELSE "mounted"
           /\ employees' = r.value
           /\ lsEmployees' = IF r.threw THEN r.ls ELSE persist(r.value)
           /\ lastCall' = Call("reload",
                               IF r.threw THEN "threw"
                               ELSE IF r.seeded THEN "seeded" ELSE "loaded",
                               Null)
    /\ uidCalls' = uidCalls + 3
    /\ form' = emptyForm
    /\ editingId' = Null
    /\ q' = ""
    /\ fDept' = "All"
    /\ fRole' = "All"
    /\ fStatus' = "All"
    /\ fContract' = "All"
    /\ sortKey' = "name"
    /\ sortDir' = "asc"
    /\ UNCHANGED <<userRole, now, download>>

(***************************************************************************)
(* The handlers.  Each runs to completion; a handler that calls            *)
(* setEmployees is followed by the render and the persistence effect.      *)
(***************************************************************************)
Roles == {"admin", "viewer"}

\* the role buttons; setting the role it already has changes nothing
setUserRole(r) ==
    /\ phase = "mounted"
    /\ r # userRole
    /\ userRole' = r
    /\ lastCall' = Idle
    /\ UNCHANGED <<lsEmployees, phase, employees, form, editingId, uidCalls, writes>>
    /\ UNCHANGED viewVars

\* what the user types into the three required fields (the email is also
\* cleared; an empty name or employee ID is what emptyForm starts with)
Typed ==
    [name |-> {"Ada Obi"}, employeeId |-> {"EMP-900"},
     email |-> {"", "ada@uptick.io"}]

\* onChange of the "Full name" and "Employee ID" inputs, which fires when the
\* text changes
setFormField(k, v) ==
    /\ phase = "mounted"
    /\ Get(form, k) # Str(v)
    /\ form' = With(form, k, Str(v))
    /\ lastCall' = Idle
    /\ UNCHANGED <<lsEmployees, phase, employees, editingId, userRole, uidCalls, writes>>
    /\ UNCHANGED viewVars

\* onChange of the "Email" input, which fires when the text changes
setFormEmail(v) ==
    /\ phase = "mounted"
    /\ Get(Get(form, "contact"), "email") # Str(v)
    /\ form' = With(form, "contact", With(Get(form, "contact"), "email", Str(v)))
    /\ lastCall' = Idle
    /\ UNCHANGED <<lsEmployees, phase, employees, editingId, userRole, uidCalls, writes>>
    /\ UNCHANGED viewVars

startAdd ==
    /\ phase = "mounted"
    /\ editingId' = Null
    /\ form' = emptyForm
    /\ lastCall' = Idle
    /\ UNCHANGED <<lsEmployees, phase, employees, userRole, uidCalls, writes>>
    /\ UNCHANGED viewVars

\* the positions of the records x of emps with x.id === id
Matches(emps, id) == {i \in 1..Len(emps) : Get(emps[i], "id") = id}

Min(S) == CHOOSE i \in S : \A j \in S : i <= j

\* employees.find((x) => x.id === id) when a record matches
find(emps, id) == emps[Min(Matches(emps, id))]

startEdit(id) ==
    /\ phase = "mounted"
    /\ lastCall' = Idle
    /\ IF Matches(employees, Str(id)) = {}
       THEN UNCHANGED <<editingId, form>>
       ELSE /\ editingId' = Str(id)
            /\ form' = Spread(EmptyObject, find(employees, Str(id)))
    /\ UNCHANGED <<lsEmployees, phase, employees, userRole, uidCalls, writes>>
    /\ UNCHANGED viewVars

\* the filter dropping from the first match on
withoutIdAndRest(prev, id) ==
    IF Matches(prev, id) = {} THEN prev ELSE SubSeq(prev, 1, Min(Matches(prev, id)) - 1)

\* prev.filter((x) => x.id !== id)
withoutId(prev, id) == SelectSeq(prev, LAMBDA x : Get(x, "id") # id)

remove(id, confirmed) ==
    /\ phase = "mounted"
    /\ IF ~canEdit
       THEN /\ lastCall' = Call("remove", "refused", Str(id))
            /\ UNCHANGED <<employees, lsEmployees, writes>>
       ELSE IF ~confirmed
       THEN /\ lastCall' = Call("remove", "declined", Str(id))
            /\ UNCHANGED <<employees, lsEmployees, writes>>
       ELSE /\ writes < MaxWrites
            /\ writes' = writes + 1
            /\ employees' = withoutId(employees, Str(id))
            /\ lsEmployees' = persist(employees')
            /\ lastCall' = Call("remove", "removed", Str(id))
    /\ UNCHANGED <<phase, form, editingId, userRole, uidCalls>>
    /\ UNCHANGED viewVars

\* the validation without the email
invalidNoEmail(f) == ~Truthy(Get(f, "name")) \/ ~Truthy(Get(f, "employeeId"))

\* !form.name || !form.employeeId || !form.contact.email
invalid(f) ==
    \/ ~Truthy(Get(f, "name"))
    \/ ~Truthy(Get(f, "employeeId"))
    \/ ~Truthy(Get(Get(f, "contact"), "email"))

\* an update that replaces the matching record by the draft
mergedAsDraft(prev, id, f) ==
    [i \in 1..Len(prev) |-> IF Get(prev[i], "id") = id THEN f ELSE prev[i]]

\* an update that inserts the draft when no record matches
mergedOrInserted(prev, id, f) ==
    IF Matches(prev, id) = {}
    THEN Append(prev, Spread(Obj([id |-> id]), f))
    ELSE [i \in 1..Len(prev) |->
            IF Get(prev[i], "id") = id THEN Spread(prev[i], f) ELSE prev[i]]

\* prev.map((x) => (x.id === editingId ? { ...x, ...form } : x))
merged(prev, id, f) ==
    [i \in 1..Len(prev) |-> IF Get(prev[i], "id") = id THEN Spread(prev[i], f) ELSE prev[i]]

\* { id: uid(), ...form }
newE(n, f) == Spread(Obj([id |-> Str(uid(n))]), f)

upsert ==
    /\ phase = "mounted"
    /\ IF ~canEdit
       THEN /\ lastCall' = Call("upsert", "refused", editingId)
            /\ UNCHANGED <<employees, lsEmployees, editingId, form, uidCalls, writes>>
       ELSE IF invalid(form)
       THEN /\ lastCall' = Call("upsert", "alert", editingId)
            /\ UNCHANGED <<employees, lsEmployees, editingId, form, uidCalls, writes>>
       ELSE /\ writes < MaxWrites
            /\ writes' = writes + 1
            /\ IF Truthy(editingId)
               THEN /\ employees' = merged(employees, editingId, form)
                    /\ lastCall' = Call("upsert", "updated", editingId)
                    /\ UNCHANGED uidCalls
               ELSE /\ employees' = <<newE(uidCalls, form)>> \o employees
                    /\ lastCall' = Call("upsert", "created", editingId)
                    /\ uidCalls' = uidCalls + 1
            /\ lsEmployees' = persist(employees')
            /\ editingId' = Null
            /\ form' = emptyForm
    /\ UNCHANGED <<phase, userRole>>
    /\ UNCHANGED viewVars

\* the ids a row's Edit and Delete buttons can pass, and one that no row has
IdsOf(emps) == {Get(emps[i], "id").s : i \in 1..Len(emps)}

AbsentId == "gone"

Handlers ==
    \/ \E r \in Roles : setUserRole(r)
    \/ \E k \in {"name", "employeeId"} : \E v \in Typed[k] : setFormField(k, v)
    \/ \E v \in Typed.email : setFormEmail(v)
    \/ startAdd
    \/ \E id \in IdsOf(employees) \cup {AbsentId} : startEdit(id)
    \/ \E id \in IdsOf(employees) \cup {AbsentId} : \E c \in BOOLEAN : remove(id, c)
    \/ upsert

(***************************************************************************)
(* The query view: search, the four filters, the sort.                     *)
(***************************************************************************)
MaxRows == 2        \* longest stored array the query view is computed from

\* the string under key k of record e
Text(e, k) == Get(e, k).s

\* [e.name, e.employeeId, e.contact.email].some((v) => v.toLowerCase().includes(s))
matchesSearch(e, s) ==
    \E v \in {Text(e, "name"), Text(e, "employeeId"), Text(Get(e, "contact"), "email")} :
        includes(toLowerCase(v), s)

\* rows.filter((e) => e[k] === f) unless f is "All"
only(rows, k, f) ==
    IF f # "All" THEN SelectSeq(rows, LAMBDA e : Get(e, k) = Str(f)) ELSE rows

\* rows before the sort: the records that pass the search and the filters, in
\* collection order
rows ==
    LET searched ==
            IF trim(q) # ""
            THEN SelectSeq(employees, LAMBDA e : matchesSearch(e, toLowerCase(q)))
            ELSE employees
    IN  only(only(only(only(searched, "department", fDept), "role", fRole),
                  "status", fStatus), "contractType", fContract)

\* the comparator of sortByKey on records a and b.  Every record has strings
\* under name and employeeId (isEmployee, and the form's inputs), so the
\* fallback compares no two values of the model; undefined > v is false.
compare(a, b, key) ==
    LET va == Get(a, key)
        vb == Get(b, key)
    IN  IF va = vb THEN 0
        ELSE IF TypeOf(va) = "string" /\ TypeOf(vb) = "string"
        THEN localeCompare(va.s, vb.s)
        ELSE IF va.t = "number" /\ vb.t = "number" /\ va.n > vb.n THEN 1 ELSE -1

RECURSIVE sort(_, _)
\* [...arr].sort(comparator of sortByKey): Array.prototype.sort is stable, so
\* each element goes after the elements before it that do not compare greater
sort(arr, key) ==
    IF arr = << >> THEN << >>
    ELSE LET front == sort(SubSeq(arr, 1, Len(arr) - 1), key)
             last == arr[Len(arr)]
             k == Cardinality({i \in 1..Len(front) : compare(front[i], last, key) <= 0})
         IN  SubSeq(front, 1, k) \o <<last>> \o SubSeq(front, k + 1, Len(front))

\* arr.reverse()
reverse(arr) == [i \in 1..Len(arr) |-> arr[Len(arr) + 1 - i]]

sortByKey(arr, key, dir) == IF dir = "asc" THEN sort(arr, key) ELSE reverse(sort(arr, key))

\* [...rows].sort((a, b) => (a.hireDate > b.hireDate ? 1 : -1)).  The
\* comparator answers -1 for two equal dates whichever comes first, so it is
\* not a consistent comparator and the order sort() gives is
\* implementation-defined: the results are the arrangements with the dates
\* ascending, tied records in any order.
sortByHireDate(arr) ==
    LET ascending(p) ==
            \A i, j \in 1..Len(arr) :
                i < j => ~StringGreater(Text(arr[p[i]], "hireDate"),
                                        Text(arr[p[j]], "hireDate"))
    IN  {[i \in 1..Len(arr) |-> arr[p[i]]] :
            p \in {p \in Permutations(1..Len(arr)) : ascending(p)}}

\* the values the memo `filtered` can have in this state
filtered ==
    IF sortKey = "hireDate"
    THEN {IF sortDir = "desc" THEN reverse(sorted) ELSE sorted :
            sorted \in sortByHireDate(rows)}
    ELSE {sortByKey(rows, sortKey, sortDir)}

\* what the user types into the search box and picks in the four selects
Searches == {"", "Ann", " "}

Options ==
    [fDept |-> {"All", "Sales"}, fRole |-> {"All", "Sales Rep"},
     fStatus |-> {"All", "Active"}, fContract |-> {"All", "Permanent"}]

setQ(v) ==
    /\ phase = "mounted"
    /\ q' = v
    /\ lastCall' = Idle
    /\ UNCHANGED <<lsEmployees, phase, employees, form, editingId, userRole, uidCalls,
                   writes, fDept, fRole, fStatus, fContract, sortKey, sortDir, now,
                   download>>

setFDept(v) ==
    /\ phase = "mounted"
    /\ fDept' = v
    /\ lastCall' = Idle
    /\ UNCHANGED <<lsEmployees, phase, employees, form, editingId, userRole, uidCalls,
                   writes, q, fRole, fStatus, fContract, sortKey, sortDir, now, download>>

setFRole(v) ==
    /\ phase = "mounted"
    /\ fRole' = v
    /\ lastCall' = Idle
    /\ UNCHANGED <<lsEmployees, phase, employees, form, editingId, userRole, uidCalls,
                   writes, q, fDept, fStatus, fContract, sortKey, sortDir, now, download>>

setFStatus(v) ==
    /\ phase = "mounted"
    /\ fStatus' = v
    /\ lastCall' = Idle
    /\ UNCHANGED <<lsEmployees, phase, employees, form, editingId, userRole, uidCalls,
                   writes, q, fDept, fRole, fContract, sortKey, sortDir, now, download>>

setFContract(v) ==
    /\ phase = "mounted"
    /\ fContract' = v
    /\ lastCall' = Idle
    /\ UNCHANGED <<lsEmployees, phase, employees, form, editingId, userRole, uidCalls,
                   writes, q, fDept, fRole, fStatus, sortKey, sortDir, now, download>>

\* onChange of SortPicker: setSortKey(k); setSortDir(d)
SortPickerOnChange(k, d) ==
    /\ phase = "mounted"
    /\ sortKey' = k
    /\ sortDir' = d
    /\ lastCall' = Idle
    /\ UNCHANGED <<lsEmployees, phase, employees, form, editingId, userRole, uidCalls,
                   writes, q, fDept, fRole, fStatus, fContract, now, download>>

SortKeys == {"name", "hireDate", "employeeId"}

Queries ==
    \/ \E v \in Searches : setQ(v)
    \/ \E v \in Options.fDept : setFDept(v)
    \/ \E v \in Options.fRole : setFRole(v)
    \/ \E v \in Options.fStatus : setFStatus(v)
    \/ \E v \in Options.fContract : setFContract(v)
    \/ \E k \in SortKeys : SortPickerOnChange(k, sortDir)
    \/ \E d \in {"asc", "desc"} : SortPickerOnChange(sortKey, d)

(***************************************************************************)
(* The CSV export.                                                         *)
(***************************************************************************)
\* the keys of the row exportCSV builds, in the order the literal lists them
Columns ==
    <<"id", "name", "employeeId", "department", "role", "supervisor", "status",
      "contractType", "hireDate", "email", "phone", "emergencyName",
      "emergencyPhone", "photoUrl">>

\* v ?? d
Coalesce(v, d) == IF v.t \in {"null", "undefined"} THEN d ELSE v

\* the row exportCSV builds of record e
row(e) ==
    [id |-> Get(e, "id"), name |-> Get(e, "name"), employeeId |-> Get(e, "employeeId"),
     department |-> Get(e, "department"), role |-> Get(e, "role"),
     supervisor |-> Coalesce(Get(e, "supervisor"), Str("")),
     status |-> Get(e, "status"), contractType |-> Get(e, "contractType"),
     hireDate |-> Get(e, "hireDate"),
     email |-> Get(Get(e, "contact"), "email"),
     phone |-> Get(Get(e, "contact"), "phone"),
     emergencyName |-> Get(Get(e, "contact"), "emergencyName"),
     emergencyPhone |-> Get(Get(e, "contact"), "emergencyPhone"),
     photoUrl |-> Coalesce(Get(e, "photoUrl"), Str(""))]

\* String(v) for a string or a natural number; the rows of the model hold
\* nothing else once ?? "" has replaced null and undefined
String(v) == IF v.t = "string" THEN v.s ELSE Pad(v.n, 1)

RECURSIVE doubleQuotes(_)
\* s.replace(/"/g, '""')
doubleQuotes(s) ==
    IF s = "" THEN ""
    ELSE (IF Head(s) = "\"" THEN "\"\"" ELSE Head(s)) \o doubleQuotes(Tail(s))

esc(v) == "\"" \o doubleQuotes(String(Coalesce(v, Str("")))) \o "\""

RECURSIVE join(_, _)
\* parts.join(sep)
join(parts, sep) ==
    IF parts = << >> THEN ""
    ELSE IF Len(parts) = 1 THEN parts[1]
    ELSE parts[1] \o sep \o join(Tail(parts), sep)

toCSV(table) ==
    IF Len(table) = 0 THEN ""
    ELSE LET headers == Columns         \* Object.keys(rows[0])
             line(r) == join([j \in 1..Len(headers) |-> esc(r[headers[j]])], ",")
         IN  join(<<join(headers, ",")>> \o [i \in 1..Len(table) |-> line(table[i])],
                  "\n")

\* the Export CSV button: the text is handed to the browser as employees.csv
exportCSV ==
    /\ phase = "mounted"
    /\ download' = [name |-> "employees.csv",
                    text |-> toCSV([i \in 1..Len(employees) |-> row(employees[i])])]
    /\ lastCall' = Call("exportCSV", "saved", Null)
    /\ UNCHANGED <<lsEmployees, phase, employees, form, editingId, userRole, uidCalls,
                   writes, q, fDept, fRole, fStatus, fContract, sortKey, sortDir, now>>

(***************************************************************************)
(* The "New (30d)" count, and the clock.                                   *)
(***************************************************************************)
MaxHours == 48      \* how long after the page is opened the model renders it

\* daysBetween(e.hireDate, new Date().toISOString()) at the clock's reading
daysSinceHire(e) == daysBetween(Text(e, "hireDate"), toISOString(now))

\* employees.filter((e) => daysBetween(...) <= 30).length; NaN <= 30 is false
newlyHired ==
    Cardinality({i \in 1..Len(employees) :
                    /\ ~IsNaN(daysSinceHire(employees[i]))
                    /\ daysSinceHire(employees[i]).n <= 30})

\* the component renders again (a state of the page is set, the theme say) h
\* hours after its last render and reads the clock
render(h) ==
    /\ phase = "mounted"
    /\ now + h <= PageOpened + MaxHours
    /\ now' = now + h
    /\ lastCall' = Idle
    /\ UNCHANGED <<lsEmployees, phase, employees, form, editingId, userRole, uidCalls,
                   writes, q, fDept, fRole, fStatus, fContract, sortKey, sortDir,
                   download>>

(***************************************************************************)
(* Spec: the page opens on empty storage or on one of three stored arrays  *)
(* and the handlers run in any order.  LoadSpec: the page opens on any     *)
(* stored item of the model.                                               *)
(***************************************************************************)
StartItems ==
    {NoItem,
     JSONstringify(Arr(<<Ann, AnnTwin>>)),
     JSONstringify(Arr(<<Blank, NumberName>>)),
     JSONstringify(Null)}

Init == InitWith(StartItems)

Next == Mount \/ Handlers

Spec == Init /\ [][Next]_vars

LoadInit == InitWith(StoredItems)

LoadNext == Mount

LoadSpec == LoadInit /\ [][LoadNext]_vars

\* ViewSpec: the page opens on a stored array of up to MaxRows records, two of
\* which agree on every sort key, and the user works the query controls.
ViewItems == {NoItem} \cup {JSONstringify(Arr(a)) : a \in SeqsUpTo({Ann, Namesake, Blank}, MaxRows)}

ViewInit == InitWith(ViewItems)

ViewNext == Mount \/ Queries

ViewSpec == ViewInit /\ [][ViewNext]_vars

(***************************************************************************)
(* Vocabulary of the properties.                                           *)
(***************************************************************************)
\* the handler that just ran
Ran(op, outcome) == lastCall.op = op /\ lastCall.outcome = outcome

\* positions of the records of the collection the handler found whose id is
\* the id it was called with
Targets == Matches(lastCall.before, lastCall.id)

\* s without its i-th element
RemoveAt(s, i) == SubSeq(s, 1, i - 1) \o SubSeq(s, i + 1, Len(s))

\* record e has an empty name, employee ID or email
EmptyRequired(e) ==
    \/ Get(e, "name") = Str("")
    \/ Get(e, "employeeId") = Str("")
    \/ Get(Get(e, "contact"), "email") = Str("")

\* C1: while the role is viewer, every call of remove and of upsert is
\* refused, and the collection and the stored blob are what they were before
\* the call.
C1_ViewerRefused ==
    (lastCall.op \in {"remove", "upsert"} /\ lastCall.role = "viewer") =>
        /\ lastCall.outcome = "refused"
        /\ employees = lastCall.before
        /\ lsEmployees = lastCall.stored

\* a viewer submitted a valid form, and a viewer confirmed the delete of a
\* record that is there
C1_Witness ==
    /\ lastCall.role = "viewer"
    /\ \/ Ran("upsert", "refused") /\ ~EmptyRequired(lastCall.draft)
       \/ Ran("remove", "refused") /\ Targets # {}
    /\ Len(employees) > 0

\* C2: a submit (create or update) whose draft has an empty name, employee
\* ID or email leaves the collection as it was and, the capability check
\* passed, reports the validation failure; and no record that a create or an
\* update adds or writes has an empty name, employee ID or email.
C2_InvalidDraftRejected ==
    /\ (lastCall.op = "upsert" /\ EmptyRequired(lastCall.draft)) =>
          /\ employees = lastCall.before
          /\ lsEmployees = lastCall.stored
          /\ lastCall.role = "admin" => lastCall.outcome = "alert"
    /\ Ran("upsert", "created") => ~EmptyRequired(employees[1])
    /\ Ran("upsert", "updated") => \A i \in Targets : ~EmptyRequired(employees[i])

\* an admin submitted an update of a record that is there with the email
\* cleared
C2_Witness ==
    /\ Ran("upsert", "alert")
    /\ Truthy(lastCall.id)
    /\ Targets # {}
    /\ Get(Get(lastCall.draft, "contact"), "email") = Str("")
    /\ Get(lastCall.draft, "name") # Str("")

\* C3: an update whose target id matches no record (the record was deleted
\* after the edit started) completes and leaves the collection with the same
\* records in the same order.
C3_UpdateOfMissingIdIsNoOp ==
    (Ran("upsert", "updated") /\ Targets = {}) =>
        /\ phase = "mounted"
        /\ employees = lastCall.before

\* an update was submitted for an id that the non-empty collection no longer has
C3_Witness ==
    /\ Ran("upsert", "updated")
    /\ Targets = {}
    /\ Len(lastCall.before) > 0

\* C4: a confirmed delete by an admin of an id that the collection holds
\* exactly once yields the collection without that one record, the others
\* unchanged and in order; a delete of an absent id and a declined delete
\* leave the collection unchanged.
C4_DeleteRemovesExactlyOne ==
    /\ (Ran("remove", "removed") /\ Cardinality(Targets) = 1) =>
          \A i \in Targets : employees = RemoveAt(lastCall.before, i)
    /\ (Ran("remove", "removed") /\ Targets = {}) => employees = lastCall.before
    /\ Ran("remove", "declined") => employees = lastCall.before

\* a record in the middle of the seed collection was deleted
C4_Witness ==
    /\ Ran("remove", "removed")
    /\ Targets = {2}
    /\ Len(lastCall.before) = 3

\* no two records of emps have the same id
UniqueIds(emps) ==
    \A i, j \in 1..Len(emps) : Get(emps[i], "id") = Get(emps[j], "id") => i = j

C6_UpdateMergesInPlace ==
    (Ran("upsert", "updated") /\ Targets # {}) =>
        /\ Len(employees) = Len(lastCall.before)
        /\ \A i \in 1..Len(lastCall.before) :
              LET old == lastCall.before[i]
                  new == employees[i]
                  draft == lastCall.draft
              IN  IF i \notin Targets
                  THEN new = old
                  ELSE /\ Get(new, "id") = Get(old, "id")
                       /\ DOMAIN new.o = (DOMAIN old.o) \cup (DOMAIN draft.o)
                       /\ \A k \in DOMAIN draft.o : new.o[k] = draft.o[k]
                       /\ \A k \in (DOMAIN old.o) \ (DOMAIN draft.o) : new.o[k] = old.o[k]

\* an update changed a record that has a field the draft lacks, next to a
\* record with another id
C6_Witness ==
    /\ Ran("upsert", "updated")
    /\ \E i \in Targets :
          /\ (DOMAIN lastCall.before[i].o) \ (DOMAIN lastCall.draft.o) # {}
          /\ employees[i] # lastCall.before[i]
    /\ \E i \in Targets : \E k \in DOMAIN lastCall.draft.o :
          k \in DOMAIN lastCall.before[i].o /\ lastCall.before[i].o[k] # lastCall.draft.o[k]

C8_StoredIsCollection ==
    phase = "mounted" =>
        /\ lsEmployees.kind = "text"
        /\ lsEmployees.parses
        /\ lsEmployees.json = Arr(employees)

\* a create on a non-empty collection changed the stored blob
C8_Witness ==
    /\ Ran("upsert", "created")
    /\ Len(employees) >= 2
    /\ lsEmployees # lastCall.stored

\* the value JSON.parse gives for the item the mount found, when it is an array
StoredArray == lastCall.stored.kind = "text" /\ lastCall.stored.parses
                /\ lastCall.stored.json.t = "array"

\* C9: whatever the stored item (unparseable text, a JSON value that is not
\* an array, an array of well-formed and malformed entries), the load does not
\* throw, and from an array it yields exactly the well-formed entries in
\* their stored order.
C9_LoadNeverThrows ==
    lastCall.op = "mount" =>
        /\ lastCall.outcome # "threw"
        /\ StoredArray => employees = SelectSeq(lastCall.stored.json.a, isEmployee)

\* the stored item fails structural validation: it is unparseable, not an
\* array, or a non-empty array without one well-formed entry
FailsValidation(item) ==
    /\ item.kind = "text"
    /\ \/ ~item.parses
       \/ item.json.t # "array"
       \/ /\ item.json.t = "array"
          /\ item.json.a # << >>
          /\ SelectSeq(item.json.a, isEmployee) = << >>

\* C10: a load that finds no stored item, or one that fails structural
\* validation (a non-empty array without one well-formed entry, say), yields
\* the three-record seed collection and stores the seed.  Stated of the loads
\* that return; C9 is about the ones that throw.
C10_SeedOnInvalid ==
    (/\ lastCall.op = "mount"
     /\ lastCall.outcome # "threw"
     /\ lastCall.stored = NoItem \/ FailsValidation(lastCall.stored)) =>
        /\ Len(employees) = 3
        /\ employees = SEED(0)
        /\ lsEmployees = JSONstringify(Arr(SEED(0)))

\* ExportSpec: the page opens on nothing, on two records or on one, an admin
\* or a viewer deletes records, changes the query and exports.
ExportItems ==
    {NoItem, JSONstringify(Arr(<<Ann, Namesake>>)), JSONstringify(Arr(<<Blank>>))}

ExportInit == InitWith(ExportItems)

ExportNext ==
    \/ Mount
    \/ \E id \in IdsOf(employees) : \E c \in BOOLEAN : remove(id, c)
    \/ \E v \in Searches : setQ(v)
    \/ \E d \in {"asc", "desc"} : SortPickerOnChange(sortKey, d)
    \/ exportCSV

ExportSpec == ExportInit /\ [][ExportNext]_vars

\* ClockSpec: the page opens on nothing or on up to MaxRows records hired 30
\* days ago, tomorrow, in a month or at no date, and renders as time passes.
ClockItems ==
    {NoItem} \cup
    {JSONstringify(Arr(a)) : a \in SeqsUpTo({Recent, Starter, Blank, Undated}, MaxRows)}

ClockInit == InitWith(ClockItems)

ClockNext == Mount \/ \E h \in {12, 24} : render(h)

ClockSpec == ClockInit /\ [][ClockNext]_vars

\* ReloadSpec: the page opens on one stored record or on two, the handlers
\* run in any order and the page is reloaded.
ReloadItems == {JSONstringify(Arr(<<Ann>>)), JSONstringify(Arr(<<Ann, Namesake>>))}

ReloadInit == InitWith(ReloadItems)

ReloadNext == Mount \/ Handlers \/ Reload

ReloadSpec == ReloadInit /\ [][ReloadNext]_vars

\* the records of s whose value under key is v, in the order of s
WithKey(s, key, v) == SelectSeq(s, LAMBDA e : Get(e, key) = v)

\* C11: whatever the collection, the search, the filters, the sort key and
\* the direction, the records of the query view that have the same value
\* under the sort key are in the order they have in the collection.
C11_SortIsStable ==
    phase = "mounted" =>
        \A view \in filtered : \A i \in 1..Len(rows) :
            WithKey(view, sortKey, Get(rows[i], sortKey))
                = WithKey(rows, sortKey, Get(rows[i], sortKey))

(***************************************************************************)
(* Reading a CSV text back: a line feed outside quotes ends a row, a comma *)
(* outside quotes ends a cell, a quote doubled inside quotes is a quote.   *)
(***************************************************************************)
\* the reader before the first character: mode is "plain" outside quotes,
\* "quoted" inside them and "quote" just after a quote met inside them
ReaderStart == [mode |-> "plain", cell |-> "", cells |-> << >>, table |-> << >>]

\* the reader st after reading character c
ReadChar(st, c) ==
    IF st.mode = "quoted"
    THEN IF c = "\"" THEN [st EXCEPT !.mode = "quote"] ELSE [st EXCEPT !.cell = @ \o c]
    ELSE IF c = "\""
    THEN IF st.mode = "quote"
         THEN [st EXCEPT !.mode = "quoted", !.cell = @ \o "\""]
         ELSE [st EXCEPT !.mode = "quoted"]
    ELSE IF c = ","
    THEN [st EXCEPT !.mode = "plain", !.cell = "", !.cells = Append(@, st.cell)]
    ELSE IF c = "\n"
    THEN [mode |-> "plain", cell |-> "", cells |-> << >>,
          table |-> Append(st.table, Append(st.cells, st.cell))]
    ELSE [st EXCEPT !.mode = "plain", !.cell = @ \o c]

RECURSIVE ReadRange(_, _, _, _)
\* the reader st after reading the characters lo..hi of text, first half
\* first (no reader has the empty mode)
ReadRange(text, lo, hi, st) ==
    IF lo > hi THEN st
    ELSE IF lo = hi THEN ReadChar(st, SubSeq(text, lo, lo))
    ELSE LET mid == (lo + hi) \div 2
             half == ReadRange(text, lo, mid, st)
         IN  IF half.mode = "" THEN half ELSE ReadRange(text, mid + 1, hi, half)

\* the rows of a CSV text; the empty text has none
ReadCSV(text) ==
    IF text = "" THEN << >>
    ELSE LET end == ReadRange(text, 1, Len(text), ReaderStart)
         IN  Append(end.table, Append(end.cells, end.cell))

\* the cells of the data row of record e
Cells(e) == [j \in 1..Len(Columns) |-> row(e)[Columns[j]].s]

\* C12: whatever the collection (the empty one too), the search, the filters
\* and the sort, the exported CSV text reads back as a header row of the
\* fourteen column names in their fixed order followed by one row per record
\* of the whole collection, in collection order.
C12_HeaderThenRowPerRecord ==
    Ran("exportCSV", "saved") =>
        LET table == ReadCSV(download.text)
        IN  /\ Len(Columns) = 14
            /\ Len(table) = Len(employees) + 1
            /\ table[1] = Columns
            /\ \A i \in 1..Len(employees) : table[i + 1] = Cells(employees[i])

\* the records hired in the last 30 whole days and not in the future
HiredWithin30Days ==
    {i \in 1..Len(employees) :
        /\ ~IsNaN(daysSinceHire(employees[i]))
        /\ daysSinceHire(employees[i]).n >= 0
        /\ daysSinceHire(employees[i]).n <= 30}

\* C13: the "newly hired" count counts no record whose whole-day difference
\* (now minus hire date) is negative and no record whose difference is more
\* than 30: it is the number of records whose difference is from 0 to 30.
C13_FutureHiresNotCounted ==
    phase = "mounted" => newlyHired = Cardinality(HiredWithin30Days)

\* C14: a reload after any creates, updates and deletes loads exactly the
\* collection that was in memory before it, the empty collection too, and
\* does not throw.
C14_ReloadRoundTrip ==
    lastCall.op = "reload" =>
        /\ lastCall.outcome # "threw"
        /\ employees = lastCall.before

\* C15: whatever the order of startAdd, startEdit, remove and upsert,
\* editingId is null or the id of a record of the collection, and so a valid
\* form that is submitted as an update changes a record.
C15_EditingIdNamesARecord ==
    /\ (phase = "mounted" /\ editingId # Null) => Matches(employees, editingId) # {}
    /\ Ran("upsert", "updated") => Targets # {}

====
